---- MODULE Spec2Model ----
(***************************************************************************)
(* Model of the two pipelines of survival-bot-factory:                     *)
(*   collector.py  - ingestion: concurrent fetch of Greenhouse and Lever   *)
(*                   boards, title filter, fit score, dedupe, ranking,     *)
(*                   POST of the top rows to the sheet endpoint;           *)
(*   resolver.py   - resolution: read target rows, fetch every job page,   *)
(*                   pick a homepage and a LinkedIn link, compute          *)
(*                   DomainMatch, POST the QA rows.                        *)
(*                                                                         *)
(* Text is modelled as a sequence of words.  Adjacent words are separated  *)
(* by exactly one space; the word " " is an empty word, that is, one     *)
(* more whitespace character.  A regex of the form \bw1 w2\b therefore     *)
(* matches where the lower-cased words w1, w2 occur next to each other.    *)
(***************************************************************************)
EXTENDS Integers, Sequences, FiniteSets, TLC

VARIABLES
    env,         \* os.environ: which of the configuration values are set
    pc,          \* position of the running main()
    requests,    \* number of HTTP requests issued so far in this run
    sink,        \* answer of the sheet endpoint to the POST ("none" before)
    exit_code,   \* process exit status (-1 while running)
    results,     \* collector: asyncio.gather results, one slot per task
    hist,        \* collector (history): what each task's fetch came to
    jobs,        \* collector: gather_all's aggregated list
    cleaned,     \* collector: gather_all's return value
    top,         \* collector: the batch main prepares for the sink
    targets,     \* resolver: rows read_targets_csv returned
    next_target, \* resolver: index of the next target of main's loop
    qa_rows,     \* resolver: main's results list
    args,        \* fit_score harness: the three arguments
    score        \* fit_score harness: the value returned (-1 before)

vars == <<env, pc, requests, sink, exit_code, results, hist, jobs, cleaned, top,
          targets, next_target, qa_rows, args, score>>

\* ------------------------------------------------------------------ bounds
MaxDescLen == 7     \* longest description excerpt drawn, in words
MaxJobs == 2        \* entries per fetched listing document
DescCap == 4        \* the desc[:2000] cap of the Lever adapter, in words
RowCap == 2         \* the [:1000] row cap of main, scaled to the batches here
MaxLinks == 2       \* link occurrences per fetched page body
MaxTargets == 2     \* data rows per fetched targets CSV

\* -------------------------------------------------------------------- text
None == <<"<None>">>                 \* Python's None where a str is expected
OrEmpty(s) == IF s = None THEN <<>> ELSE s      \* the idiom  (s or "")

\* str.lower() / re.I on the words used here
Lower(w) ==
    CASE w = "Data" -> "data"        [] w = "Analyst" -> "analyst"
      [] w = "Sales" -> "sales"      [] w = "SALES" -> "sales"
      [] w = "Senior" -> "senior"    [] w = "Engineer" -> "engineer"
      [] w = "Underwriting" -> "underwriting"
      [] w = "Excel" -> "excel"      [] w = "SQL" -> "sql"
      [] w = "Python" -> "python"    [] w = "VBA" -> "vba"
      [] w = "Remote" -> "remote"    [] w = "Remotely" -> "remotely"
      [] w = "Berlin" -> "berlin"    [] w = "Los" -> "los"
      [] w = "Angeles" -> "angeles"  [] w = "MySQL" -> "mysql"
      [] w = "WWW" -> "www"          [] w = "Acme.com" -> "acme.com"
      [] w = "LinkedIn.com" -> "linkedin.com"
      [] w = "HTTPS" -> "https"
      [] OTHER -> w

LowerText(t) == [i \in 1..Len(t) |-> Lower(t[i])]

\* str.strip(): leading and trailing whitespace removed
RECURSIVE LStrip(_)
LStrip(t) == IF t # <<>> /\ Head(t) = " " THEN LStrip(Tail(t)) ELSE t
RECURSIVE RStrip(_)
RStrip(t) ==
    IF t # <<>> /\ t[Len(t)] = " " THEN RStrip(SubSeq(t, 1, Len(t) - 1)) ELSE t
Strip(t) == RStrip(LStrip(t))

\* s[:n]
Take(s, n) == SubSeq(s, 1, IF Len(s) < n THEN Len(s) ELSE n)

\* the phrase p occurs in t as whole words
OccursIn(p, t) ==
    \E i \in 1..(Len(t) - Len(p) + 1) : SubSeq(t, i, i + Len(p) - 1) = p

\* ----------------------------------------------------------- role filters
INCLUDE_TITLE_PATTERNS ==
    { <<"financial", "analyst">>, <<"capital", "markets", "analyst">>,
      <<"investment", "analyst">>, <<"portfolio", "analyst">>,
      <<"portfolio", "coordinator">>, <<"credit", "analyst">>,
      <<"business", "intelligence", "analyst">>, <<"bi", "analyst">>,
      <<"data", "analyst">>, <<"reporting", "analyst">>,
      <<"data", "operations", "analyst">>, <<"real", "estate", "analyst">>,
      <<"asset", "management", "analyst">>, <<"underwriting", "analyst">>,
      <<"risk", "analyst">>, <<"fp&a", "analyst">>,
      <<"corporate", "finance", "analyst">>, <<"treasury", "analyst">>,
      <<"strategy", "analyst">>, <<"operations", "analyst">> }

EXCLUDE_TITLE_PATTERNS ==
    { <<"sales">>, <<"business", "development">>, <<"bd">>, <<"bdr">>,
      <<"sdr">>, <<"account", "executive">>, <<"customer", "success">>,
      <<"marketing">>, <<"retail">>, <<"teller">>, <<"loan", "officer">>,
      <<"originator">>, <<"recruiter">>, <<"admissions">> }

\* INCLUDE_RE.search(title) / EXCLUDE_RE.search(title), compiled with re.I
INCLUDE_RE_search(title) ==
    \E p \in INCLUDE_TITLE_PATTERNS : OccursIn(p, LowerText(title))
EXCLUDE_RE_search(title) ==
    \E p \in EXCLUDE_TITLE_PATTERNS : OccursIn(p, LowerText(title))

LOC_OK_PATTERNS ==
    { <<"remote">>, <<"united", "states">>, <<"usa">>, <<"anywhere">>,
      <<"california">>, <<"los", "angeles">> }
LOC_OK_RE_search(loc) ==
    \E p \in LOC_OK_PATTERNS : OccursIn(p, LowerText(loc))

\* -------------------------------------------------------------- fit score
DESC_SKILLS ==
    { <<"excel">>, <<"sql">>, <<"python">>, <<"model">>, <<"underwriting">>,
      <<"valuation">>, <<"capital", "markets">>, <<"fp&a">>, <<"dashboard">>,
      <<"automation">>, <<"apps", "script">>, <<"vba">> }

\* <<w, k>>: the word w starts with / ends with the shorter word k
StartsWithPairs ==
    { <<"modeling", "model">>, <<"scripts", "script">>,
      <<"dashboards", "dashboard">>, <<"remotely", "remote">> }
EndsWithPairs == { <<"mysql", "sql">> }
StartsWith(w, k) == w = k \/ <<w, k>> \in StartsWithPairs
EndsWith(w, k) == w = k \/ <<w, k>> \in EndsWithPairs
Contains(w, k) == StartsWith(w, k) \/ EndsWith(w, k)

\* kw in t: plain substring search, no word boundaries
KwIn(kw, t) ==
    \E i \in 1..(Len(t) - Len(kw) + 1) :
        IF Len(kw) = 1
        THEN Contains(t[i], kw[1])
        ELSE /\ EndsWith(t[i], kw[1])
             /\ StartsWith(t[i + Len(kw) - 1], kw[Len(kw)])
             /\ \A k \in 2..(Len(kw) - 1) : t[i + k - 1] = kw[k]

Min(a, b) == IF a < b THEN a ELSE b
Max(a, b) == IF a > b THEN a ELSE b

\* variant: the location bonus added without the second min(..., 5)
fit_score_noclamp(title, desc, loc) ==
    LET t == LowerText(OrEmpty(title) \o OrEmpty(desc))
        base == IF INCLUDE_RE_search(OrEmpty(title)) THEN 3 ELSE 0
        skills == Cardinality({kw \in DESC_SKILLS : KwIn(kw, t)})
        s1 == Min(base + skills, 5)
        s2 == IF OrEmpty(loc) # <<>> /\ LOC_OK_RE_search(loc)
              THEN s1 + 1 ELSE s1
    IN  Max(s2, 0)

fit_score(title, desc, loc) ==
    LET t == LowerText(OrEmpty(title) \o OrEmpty(desc))
        base == IF INCLUDE_RE_search(OrEmpty(title)) THEN 3 ELSE 0
        skills == Cardinality({kw \in DESC_SKILLS : KwIn(kw, t)})
        s1 == Min(base + skills, 5)
        s2 == IF OrEmpty(loc) # <<>> /\ LOC_OK_RE_search(loc)
              THEN Min(s1 + 1, 5) ELSE s1
    IN  Max(s2, 0)

\* ---------------------------------------------------- fit_score harness
DescCorpus ==
    <<"Excel", "SQL", "Python", "modeling", "valuation", "dashboards",
      "apps", "scripts", "capital", "markets", "VBA", "automation", "team">>

DescSamples ==
    { SubSeq(DescCorpus, w[1], w[2]) :
        w \in { v \in (1..Len(DescCorpus)) \X (0..Len(DescCorpus)) :
                   v[2] - v[1] + 1 \in 0..MaxDescLen } } \cup {None}

TitleSamples ==
    { None, <<>>, <<"Data", "Analyst">>, <<"Sales", "Data", "Analyst">>,
      <<"Engineer">>, <<"Underwriting", "Analyst">>,
      <<"fp&a", "analyst">>, <<"Data", " ", "Analyst">> }

LocSamples ==
    { None, <<>>, <<"Remote">>, <<"Remotely">>, <<"Berlin">>,
      <<"Los", "Angeles">> }

NoArgs == [title |-> None, desc |-> None, loc |-> None]

\* ------------------------------------------------------------- idle parts
IdleCollector ==
    /\ results = <<>> /\ hist = <<>>
    /\ jobs = <<>> /\ cleaned = <<>> /\ top = <<>>
IdleResolver == targets = <<>> /\ next_target = 0 /\ qa_rows = <<>>
IdleScore == args = NoArgs /\ score = -1
IdleProcess ==
    /\ env = [SHEET_WEBAPP_URL |-> FALSE, TARGETS_CSV_URL |-> FALSE]
    /\ requests = 0 /\ sink = "none" /\ exit_code = -1

collectorVars == <<results, hist, jobs, cleaned, top>>
resolverVars == <<targets, next_target, qa_rows>>
scoreVars == <<args, score>>
processVars == <<env, requests, sink, exit_code>>

\* -------------------------------------------- specification: fit_score
InitScore ==
    /\ pc = "fit_score"
    /\ args \in [title : TitleSamples, desc : DescSamples, loc : LocSamples]
    /\ score = -1
    /\ IdleProcess /\ IdleCollector /\ IdleResolver

CallFitScore ==
    /\ pc = "fit_score"
    /\ score' = fit_score(args.title, args.desc, args.loc)
    /\ pc' = "returned"
    /\ UNCHANGED <<args, processVars, collectorVars, resolverVars>>

NextScore == CallFitScore

SpecScore == InitScore /\ [][NextScore]_vars

\* C2: whatever the title, description and location (empty and None
\* included, any number of skill keywords matched), the value fit_score
\* returns is an integer between 0 and 5.
C2_ScoreInRange == pc = "returned" => score \in 0..5

\* the clamp is exercised twice: more than two skills on top of the base
\* 3, and the location bonus on a score that is already 5
C2_Witness ==
    /\ pc = "returned"
    /\ INCLUDE_RE_search(OrEmpty(args.title))
    /\ Cardinality({kw \in DESC_SKILLS :
           KwIn(kw, LowerText(OrEmpty(args.title) \o OrEmpty(args.desc)))}) > 3
    /\ LOC_OK_RE_search(OrEmpty(args.loc))
    /\ score = 5


\* ======================================================== collector.py
\* string comparison (code point order) on the words that get compared
CodePointOrder ==
    <<" ", "Analyst", "Data", "Engineer", "Sales", "Underwriting",
      "acme", "analyst", "data", "zeta">>
WordRank(w) == CHOOSE i \in 1..Len(CodePointOrder) : CodePointOrder[i] = w

\* a < b for two str values, each a sequence of words
RECURSIVE TextLess(_, _)
TextLess(a, b) ==
    IF b = <<>> THEN FALSE
    ELSE IF a = <<>> THEN TRUE
    ELSE IF Head(a) = Head(b) THEN TextLess(Tail(a), Tail(b))
    ELSE WordRank(Head(a)) < WordRank(Head(b))

GREENHOUSE_SLUGS == <<"zeta", "acme">>
LEVER_SLUGS == <<"acme">>

NumTasks == Len(GREENHOUSE_SLUGS) + Len(LEVER_SLUGS)
Tasks == 1..NumTasks
GreenhouseTasks == 1..Len(GREENHOUSE_SLUGS)
LeverTasks == (Len(GREENHOUSE_SLUGS) + 1)..NumTasks

\* ---- raw listing entries (JSON values) the boards answer with.  An
\* entry of kind "object" carries the fields the adapters read: url is
\* absolute_url / hostedUrl, alt_url is url / applyUrl, location is
\* location.name / categories.location, desc is descriptionPlain.
Entry(title, url, alt_url, location, desc) ==
    [kind |-> "object", title |-> title, url |-> url, alt_url |-> alt_url,
     location |-> location, desc |-> desc]
ScalarEntry == [kind |-> "scalar", title |-> None, url |-> None,
                alt_url |-> None, location |-> None, desc |-> None]

\* what each board may list, by slug
GreenhousePool(slug) ==
    IF slug = "zeta"
    THEN { Entry(<<"Data", "Analyst">>, <<"u1">>, None, <<"Remote">>, None),
           Entry(<<"Sales", "Data", "Analyst">>, <<"u2">>, None, <<"Remote">>, None),
           ScalarEntry }
    ELSE { Entry(<<"Data", "Analyst">>, <<"u1">>, None, <<"Remote">>, None),
           Entry(<<"Underwriting", "Analyst">>, None, <<"u2", " ">>, <<"Berlin">>, None),
           Entry(None, <<"u3">>, None, None, None),
           Entry(<<"Engineer">>, <<"u4">>, None, <<"Remote">>, None) }

LeverPool(slug) ==
    { Entry(<<"Data", "Analyst">>, <<"u1">>, None, <<"Remote">>,
            <<"SQL", "Excel", "Python", "VBA", "modeling">>),
      Entry(<<" ", "Data", "Analyst">>, None, <<"u3">>, None, None),
      Entry(<<"Data", "Analyst", "Sales">>, <<"u2">>, None, None, <<"SQL">>) }

SeqsUpTo(S, n) == UNION { [1..k -> S] : k \in 0..n }

\* a JSON document: null, an object whose "jobs" key holds items, or a list
NullDoc == [kind |-> "null", items |-> <<>>]
OtherKind(kind) == IF kind = "object" THEN "list" ELSE "object"
\* the documents a board may answer with: of the kind the adapter expects,
\* with up to MaxJobs entries; of the other kind; or null
Docs(pool, kind) ==
    { [kind |-> kind, items |-> s] : s \in SeqsUpTo(pool, MaxJobs) }
      \cup { [kind |-> OtherKind(kind), items |-> s] : s \in SeqsUpTo(pool, 1) }
      \cup { NullDoc }

\* what session.get can come to: an exception (connection error, timeout),
\* or a response with a status, a content type and a body
Response(error, status, json_ctype, parses, doc) ==
    [error |-> error, status |-> status, json_ctype |-> json_ctype,
     parses |-> parses, doc |-> doc]
FailedResponses ==
    { Response("ClientConnectorError", 0, FALSE, FALSE, NullDoc),
      Response("TimeoutError", 0, FALSE, FALSE, NullDoc),
      Response("none", 404, TRUE, TRUE, NullDoc),
      Response("none", 500, TRUE, TRUE, NullDoc),
      Response("none", 200, FALSE, TRUE, NullDoc),
      Response("none", 200, TRUE, FALSE, NullDoc) }
Responses(pool, kind) ==
    FailedResponses
      \cup { Response("none", 200, TRUE, TRUE, d) : d \in Docs(pool, kind) }

fetch_json(resp) ==
    IF resp.error # "none" THEN NullDoc
    ELSE IF resp.status = 200 /\ resp.json_ctype
         THEN (IF resp.parses THEN resp.doc ELSE NullDoc)
         ELSE NullDoc

\* bool(data) for a JSON value
Truthy(data) ==
    CASE data.kind = "null" -> FALSE
      [] data.kind = "list" -> data.items # <<>>
      [] OTHER -> TRUE            \* the object has its "jobs" key

\* what a task (a coroutine under asyncio.gather) ends with
Pending == [status |-> "pending", rows |-> <<>>]
Returned(rows) == [status |-> "list", rows |-> rows]
Raised == [status |-> "exception", rows |-> <<>>]

Posting(source, company, title, url, location, desc) ==
    [source |-> source, company |-> company, title |-> title, url |-> url,
     location |-> location, desc |-> desc]

\* variant: an adapter that tests INCLUDE alone
GreenhouseAccepts_IncludeOnly(title) == INCLUDE_RE_search(title)

\* the title filter as each place writes it: EXCLUDE first, then INCLUDE
GreenhouseAccepts(title) ==
    ~EXCLUDE_RE_search(title) /\ INCLUDE_RE_search(title)
LeverAccepts(title) ==
    ~EXCLUDE_RE_search(title) /\ INCLUDE_RE_search(title)
GuardAccepts(title) ==
    ~EXCLUDE_RE_search(title) /\ INCLUDE_RE_search(title)

\* (a or b or "")
FirstOf(a, b) == IF OrEmpty(a) # <<>> THEN a ELSE OrEmpty(b)

RECURSIVE GreenhouseRows(_, _)
GreenhouseRows(slug, items) ==
    IF items = <<>> THEN <<>>
    ELSE LET j == Head(items)
             title == Strip(OrEmpty(j.title))
             loc == Strip(OrEmpty(j.location))
             jd_url == Strip(FirstOf(j.url, j.alt_url))
             rest == GreenhouseRows(slug, Tail(items))
         IN  IF title = <<>> \/ jd_url = <<>> THEN rest
             ELSE IF ~GreenhouseAccepts(title) THEN rest
             ELSE <<Posting("greenhouse", slug, title, jd_url, loc, <<>>)>>
                    \o rest

fetch_greenhouse_company(slug, resp) ==
    LET data == fetch_json(resp)
    IN  IF ~Truthy(data) THEN Returned(<<>>)
        ELSE IF data.kind # "object" THEN Raised      \* list has no .get
        ELSE IF \E k \in 1..Len(data.items) : data.items[k].kind # "object"
             THEN Raised                              \* j.get on a scalar
        ELSE Returned(GreenhouseRows(slug, data.items))

RECURSIVE LeverRows(_, _)
LeverRows(slug, items) ==
    IF items = <<>> THEN <<>>
    ELSE LET j == Head(items)
             title == Strip(OrEmpty(j.title))
             jd_url == Strip(FirstOf(j.url, j.alt_url))
             loc == Strip(OrEmpty(j.location))
             desc == Take(OrEmpty(j.desc), DescCap)
             rest == LeverRows(slug, Tail(items))
         IN  IF title = <<>> \/ jd_url = <<>> THEN rest
             ELSE IF ~LeverAccepts(title) THEN rest
             ELSE <<Posting("lever", slug, title, jd_url, loc, desc)>> \o rest

fetch_lever_company(slug, resp) ==
    LET data == fetch_json(resp)
    IN  IF ~Truthy(data) THEN Returned(<<>>)
        ELSE IF data.kind # "list" THEN Raised   \* iterating a dict: str keys
        ELSE IF \E k \in 1..Len(data.items) : data.items[k].kind # "object"
             THEN Raised
        ELSE Returned(LeverRows(slug, data.items))

\* the text f"{url}|{title}" whose sha1 prefix is the id; the digest itself
\* is not computed, the id stands for the text it is taken from
make_id(url, title) == url \o <<"|">> \o title

\* asyncio.gather(*tasks, return_exceptions=True): the value the await
\* gives for the finished tasks, and whether it raises instead
return_exceptions == TRUE
\* variant: gather without return_exceptions, the first exception propagates
GatherRaises_Propagates(res) == \E i \in Tasks : res[i].status = "exception"
GatherRaises(res) ==
    ~return_exceptions /\ \E i \in Tasks : res[i].status = "exception"

\* jobs.extend(r) for every r that is a list, in task order
RECURSIVE Aggregate(_, _)
Aggregate(res, i) ==
    IF i > NumTasks THEN <<>>
    ELSE (IF res[i].status = "list" THEN res[i].rows ELSE <<>>)
           \o Aggregate(res, i + 1)

Scored(j) ==
    [source |-> j.source, company |-> j.company, title |-> j.title,
     url |-> j.url, location |-> j.location, desc |-> j.desc,
     fitscore |-> fit_score(j.title, j.desc, j.location),
     id |-> make_id(j.url, j.title)]

\* variant: a later posting replaces the one kept for its id
RECURSIVE DedupeKeepLast(_, _, _)
DedupeKeepLast(js, seen, acc) ==
    IF js = <<>> THEN acc
    ELSE LET j == Head(js)
         IN  IF ~GuardAccepts(j.title) THEN DedupeKeepLast(Tail(js), seen, acc)
             ELSE LET s == Scored(j)
                  IN  DedupeKeepLast(Tail(js), seen \cup {s.id},
                          SelectSeq(acc, LAMBDA c : c.id # s.id) \o <<s>>)

\* the score + dedupe loop: seen is the id set, acc the cleaned list so far
RECURSIVE Dedupe(_, _, _)
Dedupe(js, seen, acc) ==
    IF js = <<>> THEN acc
    ELSE LET j == Head(js)
         IN  IF ~GuardAccepts(j.title) THEN Dedupe(Tail(js), seen, acc)
             ELSE LET s == Scored(j)
                  IN  IF s.id \in seen THEN Dedupe(Tail(js), seen, acc)
                      ELSE Dedupe(Tail(js), seen \cup {s.id}, acc \o <<s>>)

\* variant: a sort key of -fitscore alone
KeyLess_ScoreOnly(a, b) == a.fitscore > b.fitscore

\* the sort key (-fitscore, company, title): a sorts strictly before b
KeyLess(a, b) ==
    \/ a.fitscore > b.fitscore
    \/ /\ a.fitscore = b.fitscore
       /\ \/ TextLess(<<a.company>>, <<b.company>>)
          \/ a.company = b.company /\ TextLess(a.title, b.title)

\* list.sort is stable: x goes behind every element that is not after it
RECURSIVE InsertSorted(_, _)
InsertSorted(x, s) ==
    IF s = <<>> THEN <<x>>
    ELSE IF KeyLess(x, Head(s)) THEN <<x>> \o s
    ELSE <<Head(s)>> \o InsertSorted(x, Tail(s))

RECURSIVE Sort(_)
Sort(s) ==
    IF s = <<>> THEN <<>>
    ELSE InsertSorted(s[Len(s)], Sort(SubSeq(s, 1, Len(s) - 1)))

Row(j) ==
    [id |-> j.id, source |-> j.source, company |-> j.company,
     title |-> j.title, url |-> j.url, location |-> j.location,
     fitscore |-> j.fitscore]

\* main's list comprehension: fitscore >= 3, then the row cap
TopRows(js) ==
    LET strong == SelectSeq(js, LAMBDA j : j.fitscore >= 3)
    IN  Take([i \in 1..Len(strong) |-> Row(strong[i])], RowCap)

\* history of a task's fetch: did fetch_json give a document, and did the
\* document offer a title that both INCLUDE and EXCLUDE match
NotFetched == [fetch |-> "pending", both |-> FALSE]
Observed(resp) ==
    [fetch |-> IF resp \in FailedResponses THEN "failed" ELSE "ok",
     both |-> \E k \in 1..Len(fetch_json(resp).items) :
                 LET t == Strip(OrEmpty(fetch_json(resp).items[k].title))
                 IN  INCLUDE_RE_search(t) /\ EXCLUDE_RE_search(t)]

\* what the sheet endpoint can answer to the POST
SinkAnswers == {"200", "201", "500", "network_error"}
Is2xx(a) == a \in {"200", "201"}

CollectorPcs == {"main", "gathering", "gathered", "post_to_sheet", "exited"}

\* ---------------------------------------------- specification: ingestion
Init ==
    /\ pc = "main"
    /\ env \in { [SHEET_WEBAPP_URL |-> b, TARGETS_CSV_URL |-> FALSE] :
                   b \in BOOLEAN }
    /\ requests = 0 /\ sink = "none" /\ exit_code = -1
    /\ IdleCollector /\ IdleResolver /\ IdleScore

\* main awaits gather_all, which creates one task per slug and awaits them
StartGather ==
    /\ pc = "main"
    /\ results' = [i \in Tasks |-> Pending]
    /\ hist' = [i \in Tasks |-> NotFetched]
    /\ pc' = "gathering"
    /\ UNCHANGED <<processVars, jobs, cleaned, top,
                   resolverVars, scoreVars>>

GreenhouseTask(i) ==
    /\ pc = "gathering"
    /\ results[i] = Pending
    /\ \E resp \in Responses(GreenhousePool(GREENHOUSE_SLUGS[i]), "object") :
         /\ results' = [results EXCEPT
                         ![i] = fetch_greenhouse_company(GREENHOUSE_SLUGS[i], resp)]
         /\ hist' = [hist EXCEPT ![i] = Observed(resp)]
    /\ requests' = requests + 1
    /\ UNCHANGED <<pc, env, sink, exit_code, jobs, cleaned, top,
                   resolverVars, scoreVars>>

LeverTask(i) ==
    /\ pc = "gathering"
    /\ results[i] = Pending
    /\ \E resp \in Responses(LeverPool(LEVER_SLUGS[i - Len(GREENHOUSE_SLUGS)]),
                          "list") :
         /\ results' = [results EXCEPT
                         ![i] = fetch_lever_company(
                                    LEVER_SLUGS[i - Len(GREENHOUSE_SLUGS)], resp)]
         /\ hist' = [hist EXCEPT ![i] = Observed(resp)]
    /\ requests' = requests + 1
    /\ UNCHANGED <<pc, env, sink, exit_code, jobs, cleaned, top,
                   resolverVars, scoreVars>>

\* the rest of gather_all once every task has finished
GatherAllReturns ==
    /\ pc = "gathering"
    /\ \A i \in Tasks : results[i] # Pending
    /\ IF GatherRaises(results)
       THEN /\ pc' = "exited" /\ exit_code' = 1
            /\ UNCHANGED <<jobs, cleaned>>
       ELSE /\ jobs' = Aggregate(results, 1)
            /\ cleaned' = Sort(Dedupe(jobs', {}, <<>>))
            /\ pc' = "gathered"
            /\ UNCHANGED exit_code
    /\ UNCHANGED <<env, requests, sink, results, hist, top,
                   resolverVars, scoreVars>>

\* main: build top, then post it or report that nothing matched
PrepareTop ==
    /\ pc = "gathered"
    /\ top' = TopRows(cleaned)
    /\ IF top' # <<>>
       THEN pc' = "post_to_sheet" /\ UNCHANGED exit_code
       ELSE pc' = "exited" /\ exit_code' = 0
    /\ UNCHANGED <<env, requests, sink, results, hist, jobs, cleaned,
                   resolverVars, scoreVars>>

post_to_sheet ==
    /\ pc = "post_to_sheet"
    /\ IF ~env.SHEET_WEBAPP_URL
       THEN /\ exit_code' = 2                       \* raise SystemExit(2)
            /\ UNCHANGED <<requests, sink>>
       ELSE \E answer \in SinkAnswers :
              /\ requests' = requests + 1
              /\ sink' = answer
              /\ exit_code' = IF answer = "network_error" THEN 1 ELSE 0
    /\ pc' = "exited"
    /\ UNCHANGED <<env, collectorVars, resolverVars, scoreVars>>

Next ==
    \/ StartGather
    \/ \E i \in GreenhouseTasks : GreenhouseTask(i)
    \/ \E i \in LeverTasks : LeverTask(i)
    \/ GatherAllReturns
    \/ PrepareTop
    \/ post_to_sheet

Spec == Init /\ [][Next]_vars

\* ------------------------------------------------- claims on ingestion
ResolverPcs == {"r_main", "r_read_targets", "r_loop", "r_post_qa", "r_exited"}
ConfigMissing ==
    \/ pc \in CollectorPcs /\ ~env.SHEET_WEBAPP_URL
    \/ pc \in ResolverPcs /\ (~env.SHEET_WEBAPP_URL \/ ~env.TARGETS_CSV_URL)

Range(f) == { f[i] : i \in DOMAIN f }
AdapterRows == UNION { Range(results[i].rows) : i \in DOMAIN results }
FilterOk(title) == INCLUDE_RE_search(title) /\ ~EXCLUDE_RE_search(title)

\* C1: a title that an EXCLUDE rule matches is rejected at each of the three
\* places that evaluate titles, also when an INCLUDE rule matches it: what
\* the two adapters return, what the post-aggregation guard lets through
\* and the rows handed to the sink all carry a title that matches INCLUDE
\* and no EXCLUDE rule.
C1_ExcludePrecedence ==
    /\ \A p \in AdapterRows : FilterOk(p.title)
    /\ \A p \in Range(cleaned) : FilterOk(p.title)
    /\ \A p \in Range(top) : FilterOk(p.title)

\* a board offered a title matching both rule sets, and a batch went out
C1_Witness ==
    /\ pc = "exited" /\ sink = "200" /\ top # <<>>
    /\ \E i \in GreenhouseTasks : hist[i].both /\ results[i].rows # <<>>
    /\ \E i \in LeverTasks : hist[i].both /\ results[i].rows # <<>>

Accepted == SelectSeq(jobs, LAMBDA j : FilterOk(j.title))
IdOf(j) == make_id(j.url, j.title)
FirstWithId(id) ==
    Accepted[CHOOSE k \in 1..Len(Accepted) :
                /\ IdOf(Accepted[k]) = id
                /\ \A m \in 1..(k - 1) : IdOf(Accepted[m]) # id]

\* C3: gather_all returns exactly one posting per distinct identifier among
\* the accepted postings of the aggregated list, and that posting is the
\* first one with the identifier in aggregation order, with its own
\* source, employer, location and score; later ones are dropped, whatever
\* adapter they come from.
C3_FirstPerIdentifier ==
    /\ \A a, b \in 1..Len(cleaned) :
         a # b => cleaned[a].id # cleaned[b].id
    /\ { c.id : c \in Range(cleaned) } = { IdOf(j) : j \in Range(Accepted) }
    /\ \A c \in Range(cleaned) :
         LET f == FirstWithId(c.id)
         IN  /\ c.source = f.source /\ c.company = f.company
             /\ c.url = f.url /\ c.title = f.title
             /\ c.location = f.location /\ c.desc = f.desc
             /\ c.fitscore = fit_score(f.title, f.desc, f.location)

\* the same URL and title came from a Greenhouse task and then from the
\* Lever task with another score; the Greenhouse posting is the survivor
C3_Witness ==
    /\ pc = "gathered"
    /\ \E a, b \in 1..Len(jobs) :
         /\ a < b /\ IdOf(jobs[a]) = IdOf(jobs[b])
         /\ jobs[a].source = "greenhouse" /\ jobs[b].source = "lever"
         /\ fit_score(jobs[a].title, jobs[a].desc, jobs[a].location)
              # fit_score(jobs[b].title, jobs[b].desc, jobs[b].location)
         /\ \E c \in Range(cleaned) :
              c.id = IdOf(jobs[a]) /\ c.source = "greenhouse"
    /\ Len(cleaned) < Len(jobs)

TextLeq(a, b) == ~TextLess(b, a)
InOrder(a, b) ==
    /\ a.fitscore >= b.fitscore
    /\ a.fitscore = b.fitscore => TextLeq(<<a.company>>, <<b.company>>)
    /\ (a.fitscore = b.fitscore /\ a.company = b.company)
         => TextLeq(a.title, b.title)
Ranked(s) == \A a, b \in 1..Len(s) : a < b => InOrder(s[a], s[b])

\* C4: in the batch for the sink (and in gather_all's list it is cut from)
\* a row never follows one with a lower score; with equal scores never
\* one with a greater employer; with equal scores and employers never one
\* with a greater title.  The threshold and the row cap keep the order.
C4_Ranked == Ranked(cleaned) /\ Ranked(top)

\* the sort moved a posting, a tie was broken by employer, and the row cap
\* cut the batch
C4_Witness ==
    /\ pc = "post_to_sheet"
    /\ Len(top) = RowCap /\ Len(cleaned) > RowCap
    /\ top[1].fitscore = top[2].fitscore /\ top[1].company # top[2].company
    /\ \E a, b \in 1..Len(jobs) :
         a < b /\ IdOf(jobs[a]) = top[2].id /\ IdOf(jobs[b]) = top[1].id

RECURSIVE RowsBefore(_)
RowsBefore(i) ==
    IF i = 1 THEN 0 ELSE RowsBefore(i - 1) + Len(results[i - 1].rows)

\* C5: whichever tasks fail, in whatever order the tasks finish, the run is
\* not aborted by them, a task whose fetch failed contributes an empty
\* list, and the aggregated list is the postings of the successful tasks
\* in task order and nothing else.
C5_FailuresIsolated ==
    /\ exit_code = 1 => sink = "network_error"
    /\ \A i \in DOMAIN hist :
         hist[i].fetch = "failed" => results[i] = Returned(<<>>)
    /\ pc \in {"gathered", "post_to_sheet", "exited"} =>
         /\ Len(jobs) = RowsBefore(NumTasks + 1)
         /\ \A i \in Tasks : \A k \in 1..Len(results[i].rows) :
              results[i].status = "list"
                 /\ jobs[RowsBefore(i) + k] = results[i].rows[k]

\* one task raised, one task's fetch failed, the third returned postings
C5_Witness ==
    /\ pc = "gathered"
    /\ \E i, j, k \in Tasks :
         /\ results[i].status = "exception"
         /\ hist[j].fetch = "failed"
         /\ results[k].rows # <<>> /\ jobs = results[k].rows

\* C6: an adapter returns an empty list and never raises on a failed fetch
\* or on a document that is malformed or lacks the expected fields.
C6_AdaptersNeverRaise ==
    \A i \in DOMAIN results : results[i].status # "exception"

\* C7: in both pipelines, while a required configuration value is missing
\* (SHEET_WEBAPP_URL for ingestion; SHEET_WEBAPP_URL or TARGETS_CSV_URL for
\* resolution) no request is issued, and the run ends with the
\* configuration error (exit status 2).
C7_ConfigBeforeNetwork ==
    ConfigMissing =>
        /\ requests = 0
        /\ pc \in {"exited", "r_exited"} => exit_code = 2

\* C8: once a batch was posted, the run ends with exit status 0 only if
\* the sink answered 2xx; any other answer and a failed POST are fatal.
C8_SinkFailureIsFatal ==
    (pc \in {"exited", "r_exited"} /\ sink # "none" /\ exit_code = 0)
        => Is2xx(sink)

\* ========================================================= resolver.py
\* A URL is its scheme, its host as written (labels; "www" is a label of
\* its own) and its path.  The empty string is EmptyUrl.  Page text is a
\* sequence of such tokens; scheme "text" marks words that are no URL.
Url(scheme, host, path) == [scheme |-> scheme, host |-> host, path |-> path]
EmptyUrl == Url("", <<>>, "")

KNOWN_HOSTS ==
    { <<"boards.greenhouse.io">>, <<"greenhouse.io">>, <<"jobs.lever.co">>,
      <<"lever.co">>, <<"linkedin.com">>, <<"twitter.com">>,
      <<"facebook.com">>, <<"fb.com">>, <<"instagram.com">>,
      <<"youtube.com">>, <<"tiktok.com">> }

\* urlparse(url).hostname is lower-cased; one leading "www." is dropped
norm_host(url) ==
    LET h == LowerText(url.host)
    IN  IF Len(h) > 1 /\ Head(h) = "www" THEN Tail(h) ELSE h

is_external_company_link(link) ==
    LET h == norm_host(link) IN h # <<>> /\ h \notin KNOWN_HOSTS

\* LINK_RE, LI_RE (both re.I)
LINK_RE_matches(tok) == Lower(tok.scheme) \in {"http", "https"}
LI_RE_match(lk) ==
    /\ Lower(lk.scheme) \in {"http", "https"}
    /\ LowerText(lk.host) \in {<<"linkedin.com">>, <<"www", "linkedin.com">>}
    /\ lk.path \in {"/company/acme", "/company/acme/about"}

TextResponse(error, status, body) ==
    [error |-> error, status |-> status, body |-> body]

fetch_text(resp) ==
    IF resp.error # "none" THEN <<>>
    ELSE IF resp.status = 200 THEN resp.body ELSE <<>>

\* a CSV data row is its fields; a target is the dict built from seven
MAX_ROWS == 50
Target(row) == [id |-> row[1], url |-> row[5]]
RECURSIVE ParseRows(_)
ParseRows(rows) ==
    IF rows = <<>> THEN <<>>
    ELSE IF Len(Head(rows)) < 7 THEN ParseRows(Tail(rows))   \* except: continue
    ELSE <<Target(Head(rows))>> \o ParseRows(Tail(rows))

\* txt: the header row, then the data rows
read_targets_csv(txt, max_rows) ==
    IF txt = <<>> THEN <<>> ELSE ParseRows(Take(Tail(txt), max_rows))

\* for lk in links: if LI_RE.match(lk): li = lk; break
FirstLinkedIn(order) ==
    IF \E i \in DOMAIN order : LI_RE_match(order[i])
    THEN order[CHOOSE i \in DOMAIN order :
                  /\ LI_RE_match(order[i])
                  /\ \A k \in 1..(i - 1) : ~LI_RE_match(order[k])]
    ELSE EmptyUrl

\* for lk in links: if is_external_company_link(lk): homepage = lk; break
FirstExternal(order) ==
    IF \E i \in DOMAIN order : is_external_company_link(order[i])
    THEN order[CHOOSE i \in DOMAIN order :
                  /\ is_external_company_link(order[i])
                  /\ \A k \in 1..(i - 1) : ~is_external_company_link(order[k])]
    ELSE EmptyUrl

\* the ways a set can be iterated
Orders(S) ==
    { o \in [1..Cardinality(S) -> S] : \A x \in S : \E i \in DOMAIN o : o[i] = x }

IssuesOf(homepage, li) ==
    LET i0 == ""
        i1 == IF homepage = EmptyUrl
              THEN (IF i0 = "" THEN ";no_homepage" ELSE i0 \o ";no_homepage")
              ELSE i0
    IN  IF li = EmptyUrl
        THEN (IF i1 = "" THEN ";no_linkedin" ELSE i1 \o ";no_linkedin")
        ELSE i1

\* html: the text fetch_text gave; order: how the link set is iterated
resolve_from_jobpage(html, order) ==
    IF html = <<>>
    THEN [ResolvedCompanyURL |-> EmptyUrl, LinkedInURL |-> EmptyUrl,
          Issues |-> "no_html"]
    ELSE LET li == FirstLinkedIn(order)
             homepage == FirstExternal(order)
         IN  [ResolvedCompanyURL |-> homepage, LinkedInURL |-> li,
              Issues |-> IssuesOf(homepage, li)]

LinksOf(html) == { html[i] : i \in { k \in DOMAIN html : LINK_RE_matches(html[k]) } }

\* variant: the resolved host is not compared with the posting's host
domain_match_NoJobHost(home_url, job_url) ==
    LET home_host == norm_host(home_url)
    IN  home_host # <<>> /\ home_host \notin KNOWN_HOSTS
domain_match(home_url, job_url) ==
    LET job_host == norm_host(job_url)
        home_host == norm_host(home_url)
    IN  /\ home_host # <<>> /\ home_host \notin KNOWN_HOSTS
        /\ home_host # job_host

\* the row main appends; html and job_url are history, not sent
QaRow(rid, job_url, html, info) ==
    [ID |-> rid,
     ResolvedCompanyURL |-> info.ResolvedCompanyURL,
     LinkedInURL |-> info.LinkedInURL,
     DomainMatch |-> IF domain_match(info.ResolvedCompanyURL, job_url)
                     THEN "TRUE" ELSE "FALSE",
     Issues |-> info.Issues,
     job_url |-> job_url, html |-> html # <<>>]

\* ---- what the network can answer in the resolution run
LinkPool ==
    { Url("https", <<"www", "linkedin.com">>, "/company/acme"),
      Url("http", <<"linkedin.com">>, "/in/bob"),
      Url("HTTPS", <<"WWW", "Acme.com">>, "/about"),
      Url("https", <<"acme.com">>, "/"),
      Url("https", <<"boards.greenhouse.io">>, "/acme"),
      Url("text", <<>>, "Apply now") }

PageResponses ==
    { TextResponse("TimeoutError", 0, <<>>), TextResponse("none", 404, <<>>) }
      \cup { TextResponse("none", 200, b) : b \in SeqsUpTo(LinkPool, MaxLinks) }

GreenhouseJobUrl == Url("https", <<"boards.greenhouse.io">>, "/acme/jobs/1")
OwnSiteJobUrl == Url("https", <<"www", "acme.com">>, "/careers/2")
CsvRow(id, url) == <<id, "lever", "acme", "Data Analyst", url, "Remote", "4">>
Header == <<"id", "source", "company", "title", "url", "location", "fitscore">>
RowPool ==
    { CsvRow("j1", GreenhouseJobUrl), CsvRow("j2", OwnSiteJobUrl),
      CsvRow("", GreenhouseJobUrl), CsvRow("j4", EmptyUrl), <<"j5", "lever">> }

CsvResponses ==
    { TextResponse("ClientConnectorError", 0, <<>>),
      TextResponse("none", 403, <<>>) }
      \cup { TextResponse("none", 200, <<Header>> \o rows) :
               rows \in SeqsUpTo(RowPool, MaxTargets) }

\* ---------------------------------------------- specification: resolution
InitResolver ==
    /\ pc = "r_main"
    /\ env \in [SHEET_WEBAPP_URL : BOOLEAN, TARGETS_CSV_URL : BOOLEAN]
    /\ requests = 0 /\ sink = "none" /\ exit_code = -1
    /\ IdleCollector /\ IdleResolver /\ IdleScore

r_CheckConfig ==
    /\ pc = "r_main"
    /\ IF ~env.TARGETS_CSV_URL \/ ~env.SHEET_WEBAPP_URL
       THEN pc' = "r_exited" /\ exit_code' = 2            \* SystemExit(2)
       ELSE pc' = "r_read_targets" /\ UNCHANGED exit_code
    /\ UNCHANGED <<env, requests, sink, collectorVars, resolverVars, scoreVars>>

r_ReadTargets ==
    /\ pc = "r_read_targets"
    /\ \E resp \in CsvResponses :
         targets' = read_targets_csv(fetch_text(resp), MAX_ROWS)
    /\ requests' = requests + 1
    /\ IF targets' = <<>>
       THEN pc' = "r_exited" /\ exit_code' = 0 /\ UNCHANGED next_target
       ELSE pc' = "r_loop" /\ next_target' = 1 /\ UNCHANGED exit_code
    /\ UNCHANGED <<env, sink, qa_rows, collectorVars, scoreVars>>

\* one iteration of  for t in targets
r_ResolveNext ==
    /\ pc = "r_loop"
    /\ next_target <= Len(targets)
    /\ LET t == targets[next_target]
       IN  IF t.id = "" \/ t.url = EmptyUrl
           THEN UNCHANGED <<qa_rows, requests>>
           ELSE /\ requests' = requests + 1
                /\ \E resp \in PageResponses :
                     LET html == fetch_text(resp)
                     IN  \E order \in Orders(LinksOf(html)) :
                           qa_rows' = Append(qa_rows,
                               QaRow(t.id, t.url, html,
                                     resolve_from_jobpage(html, order)))
    /\ next_target' = next_target + 1
    /\ UNCHANGED <<pc, env, sink, exit_code, targets, collectorVars, scoreVars>>

r_LoopDone ==
    /\ pc = "r_loop"
    /\ next_target > Len(targets)
    /\ IF qa_rows # <<>>
       THEN pc' = "r_post_qa" /\ UNCHANGED exit_code
       ELSE pc' = "r_exited" /\ exit_code' = 0
    /\ UNCHANGED <<env, requests, sink, collectorVars, resolverVars, scoreVars>>

post_qa ==
    /\ pc = "r_post_qa"
    /\ \E answer \in SinkAnswers :
         /\ sink' = answer
         /\ exit_code' = IF answer = "network_error" THEN 1
                         ELSE IF answer = "200" THEN 0 ELSE 3
    /\ requests' = requests + 1
    /\ pc' = "r_exited"
    /\ UNCHANGED <<env, collectorVars, resolverVars, scoreVars>>

NextResolver ==
    \/ r_CheckConfig
    \/ r_ReadTargets
    \/ r_ResolveNext
    \/ r_LoopDone
    \/ post_qa

SpecResolver == InitResolver /\ [][NextResolver]_vars

\* ------------------------------------------------ claims on resolution
ExpectedIssues(r) ==
    IF r.ResolvedCompanyURL = EmptyUrl
    THEN (IF r.LinkedInURL = EmptyUrl THEN "no_homepage;no_linkedin"
          ELSE "no_homepage")
    ELSE (IF r.LinkedInURL = EmptyUrl THEN "no_linkedin" ELSE "")

\* C9: without a body Issues is exactly no_html and both link fields are
\* empty; with a body Issues is exactly the flags that apply, no_homepage
\* and no_linkedin, joined by ";" with no separator in front or behind.
C9_IssuesExact ==
    \A r \in Range(qa_rows) :
        IF r.html THEN r.Issues = ExpectedIssues(r)
        ELSE /\ r.Issues = "no_html"
             /\ r.ResolvedCompanyURL = EmptyUrl /\ r.LinkedInURL = EmptyUrl

\* C10: DomainMatch is TRUE exactly when the host of ResolvedCompanyURL is
\* not empty, is no known-platform host and differs from the host of the
\* posting URL; it is FALSE when no body was fetched or no external link
\* was found; and a selected ResolvedCompanyURL never has a known-platform
\* host.
C10_DomainMatch ==
    \A r \in Range(qa_rows) :
        /\ r.DomainMatch = "TRUE" <=>
             /\ norm_host(r.ResolvedCompanyURL) # <<>>
             /\ norm_host(r.ResolvedCompanyURL) \notin KNOWN_HOSTS
             /\ norm_host(r.ResolvedCompanyURL) # norm_host(r.job_url)
        /\ r.DomainMatch \in {"TRUE", "FALSE"}
        /\ (~r.html \/ r.ResolvedCompanyURL = EmptyUrl) => r.DomainMatch = "FALSE"
        /\ r.ResolvedCompanyURL # EmptyUrl =>
             norm_host(r.ResolvedCompanyURL) \notin KNOWN_HOSTS

\* rows of all three kinds were produced: a match, a homepage on the
\* posting's own host, and a page whose only links are platform links
C10_Witness ==
    /\ pc = "r_exited" /\ sink = "200"
    /\ \E r \in Range(qa_rows) :
         r.DomainMatch = "TRUE" /\ r.job_url = GreenhouseJobUrl
    /\ \E r \in Range(qa_rows) :
         /\ r.DomainMatch = "FALSE" /\ r.ResolvedCompanyURL # EmptyUrl
         /\ norm_host(r.ResolvedCompanyURL) = norm_host(r.job_url)

====
